---- MODULE Spec2Model ----
(***************************************************************************)
(* deterministic-tar (src/src/main.rs): the directory walker               *)
(* (DirWalkIterator), the tar encoder (TarOutput) and the main loop that   *)
(* connects them.  Bytes are integers 0..255, byte strings are sequences   *)
(* of bytes, a path is a sequence of components (each a byte string).      *)
(* The archive is the byte sequence written to the tar sink; header blocks *)
(* are 512 bytes and the name field 100 bytes, as in the code.             *)
(***************************************************************************)
EXTENDS Integers, Sequences, FiniteSets, TLC

VARIABLES
    fs,             \* the file system: path -> node (fixed during a run)
    stamp,          \* mtime/uid that stat reports (changes between runs)
    opt,            \* DeterministicTarOpt, the parsed command line
    run,            \* 1 = first invocation of main, 2 = second invocation
    pc,             \* position of main: "walk", "write", "end", "done", "panicked"
    panic,          \* the panic message, "" when none
    remaining,      \* DirWalkIterator.remaining, the stack of pending paths
    cur,            \* the DirWalkItem the for loop holds (Option: <<>> or <<d>>)
    out_tar,        \* bytes written to output_tar
    out_hash,       \* lines written to output_hash
    header_at,      \* offsets in out_tar where write_all(&header) wrote a header
    events,         \* what next() did with each popped path (history)
    first           \* outputs of the first invocation (Option)

vars == <<fs, stamp, opt, run, pc, panic, remaining, cur, out_tar, out_hash,
          header_at, events, first>>

----------------------------------------------------------------------------
(* Bounds of the model *)

MaxNodes == 3          \* entries below the input directory (walk family)
MaxSymlinks == 1       \* symlinks among them
MaxTarNodes == 1       \* entries below the input directory (content family)
LongLen == 98          \* length of the long basename
BigLen == 513          \* length of the large file content

(* Program constants *)

BlockSize == 512
NameFieldLen == 100
EndMarkerBlocks == 10
Slash == 47

None == <<>>
Some(x) == <<x>>

Min(a, b) == IF a < b THEN a ELSE b
Last(s) == s[Len(s)]
Front(s) == SubSeq(s, 1, Len(s) - 1)
Zeros(n) == [i \in 1..n |-> 0]

----------------------------------------------------------------------------
(* Names used to build the file systems of the model *)

T == <<116>>                          \* "t", the parent of the input
R == <<114>>                          \* "r", the input directory
O == <<111>>                          \* "o", a directory outside the input
F == <<102>>                          \* "f", a file in that directory
G == <<46, 103, 105, 116>>            \* ".git"
A == <<97>>                           \* "a"
L == [i \in 1..LongLen |-> 97 + ((i - 1) % 26)]   \* "abcdefgh...", LongLen bytes
RR == <<114, 114>>                    \* "rr", a replacement main dir name

Input == <<T, R>>
TargetDir == <<T, O>>
TargetFile == <<T, O, F>>

Names1 == {G, A, L}
Names2 == {G, L}
Kinds1 == {"none", "file", "dir", "symf", "symd"}
Kinds2 == {"none", "file", "dir"}

NoSpecial == [path |-> <<>>, content |-> <<>>, size |-> 0]

DefaultContent(p) == SubSeq(Last(p), 1, Min(2, Len(Last(p))))
BigContent == [i \in 1..BigLen |-> 48 + (i % 10)]

FileNode(p, sp) ==
    IF sp.path = p
    THEN [kind |-> "file", target |-> <<>>, size |-> sp.size, content |-> sp.content]
    ELSE [kind |-> "file", target |-> <<>>, size |-> Len(DefaultContent(p)),
          content |-> DefaultContent(p)]
DirNode == [kind |-> "dir", target |-> <<>>, size |-> 4096, content |-> <<>>]
LinkNode(t) == [kind |-> "symlink", target |-> t, size |-> Len(t), content |-> <<>>]

NodeOfKind(k, p, sp) ==
    CASE k = "file" -> FileNode(p, sp)
      [] k = "dir"  -> DirNode
      [] k = "symf" -> LinkNode(TargetFile)
      [] k = "symd" -> LinkNode(TargetDir)

(* The file system with the input of kind rk, the entries k1 directly below
   it and the entries k2 one level deeper; sp is the file whose content or
   size differs from the default. *)
MkFs(rk, k1, k2, sp) ==
    LET P1 == {n \in Names1 : k1[n] # "none"}
        P2 == {x \in Names1 \X Names2 : k2[x] # "none"}
        dom == {TargetDir, TargetFile, Input}
                 \cup {Input \o <<n>> : n \in P1}
                 \cup {Input \o <<x[1], x[2]>> : x \in P2}
    IN [p \in dom |->
          IF p = TargetDir THEN DirNode
          ELSE IF p = TargetFile THEN FileNode(p, sp)
          ELSE IF p = Input THEN NodeOfKind(rk, p, sp)
          ELSE IF Len(p) = 3 THEN NodeOfKind(k1[p[3]], p, sp)
          ELSE NodeOfKind(k2[<<p[3], p[4]>>], p, sp)]

NodeCount(k1, k2) ==
    Cardinality({n \in Names1 : k1[n] # "none"})
      + Cardinality({x \in Names1 \X Names2 : k2[x] # "none"})
SymlinkCount(k1) == Cardinality({n \in Names1 : k1[n] \in {"symf", "symd"}})
WellFormed(k1, k2) == \A x \in Names1 \X Names2 : k2[x] # "none" => k1[x[1]] = "dir"
NoKids == [x \in Names1 \X Names2 |-> "none"]
NoEntries == [n \in Names1 |-> "none"]

----------------------------------------------------------------------------
(* Paths *)

IsPrefix(a, b) == Len(a) <= Len(b) /\ SubSeq(b, 1, Len(a)) = a
StripPrefix(p, base) == SubSeq(p, Len(base) + 1, Len(p))
Parent(p) == Front(p)
FileName(p) == Last(p)

(* Ord for [u8]: lexicographic on bytes; -1, 0 or 1 *)
BytesCmp(a, b) ==
    LET D == {i \in 1..Min(Len(a), Len(b)) : a[i] # b[i]}
    IN IF D = {}
       THEN IF Len(a) < Len(b) THEN -1 ELSE IF Len(a) > Len(b) THEN 1 ELSE 0
       ELSE LET i == CHOOSE k \in D : \A j \in D : k <= j
            IN IF a[i] < b[i] THEN -1 ELSE 1

(* Ord for Path: lexicographic on the components *)
PathCmp(a, b) ==
    LET D == {i \in 1..Min(Len(a), Len(b)) : a[i] # b[i]}
    IN IF D = {}
       THEN IF Len(a) < Len(b) THEN -1 ELSE IF Len(a) > Len(b) THEN 1 ELSE 0
       ELSE LET i == CHOOSE k \in D : \A j \in D : k <= j
            IN BytesCmp(a[i], b[i])

(* The components joined with '/', as PathBuf::to_str gives them *)
RECURSIVE JoinPath(_)
JoinPath(p) ==
    IF p = <<>> THEN <<>>
    ELSE IF Len(p) = 1 THEN p[1]
    ELSE p[1] \o <<Slash>> \o JoinPath(Tail(p))

----------------------------------------------------------------------------
(* Exclusion patterns.  A Regex is one of two shapes: the pattern ^[.].*$
   that -d adds, and an unanchored literal. *)

DotRegex == [kind |-> "dot", lit |-> <<>>]
LitRegex(b) == [kind |-> "lit", lit |-> b]

(* Regex::is_match: an unanchored search *)
IsMatch(regex, s) ==
    IF regex.kind = "dot"
    THEN Len(s) >= 1 /\ s[1] = 46 /\ \A i \in 2..Len(s) : s[i] # 10
    ELSE \E i \in 0..(Len(s) - Len(regex.lit)) :
            SubSeq(s, i + 1, i + Len(regex.lit)) = regex.lit

is_allowed_name(p, i) ==
    ~ \E k \in 1..Len(i) : IsMatch(i[k], FileName(p))

(* main: the patterns handed to the walker *)
ignored_names ==
    IF opt.dot_files_excluded
    THEN Append(opt.ignored_names, DotRegex)
    ELSE opt.ignored_names

(* main: the walker's basedir is the parent of the input *)
basedir == Parent(opt.input)

----------------------------------------------------------------------------
(* The operating system *)

(* std::fs::symlink_metadata *)
Metadata(p) ==
    [is_symlink |-> fs[p].kind = "symlink",
     is_file    |-> fs[p].kind = "file",
     is_dir     |-> fs[p].kind = "dir",
     size       |-> fs[p].size,
     mtime      |-> stamp,
     uid        |-> stamp]

(* Path::canonicalize of a path whose last component may be a symlink *)
Canonicalize(p) == IF fs[p].kind = "symlink" THEN fs[p].target ELSE p

BaseNames == Names1 \cup Names2
(* The orders in which read_dir may list the entries of a directory *)
Orders ==
    LET n == Cardinality(BaseNames)
    IN {s \in [1..n -> BaseNames] : \A i, j \in 1..n : s[i] = s[j] => i = j}

(* Path::read_dir: the children of r, listed in the order ord *)
ReadDir(r, ord) ==
    LET all == [i \in 1..Len(ord) |-> r \o <<ord[i]>>]
        Exists(d) == d \in DOMAIN fs
    IN SelectSeq(all, Exists)

----------------------------------------------------------------------------
(* DirWalkIterator *)

ReverseCmp(a, b) == PathCmp(b, a)

(* Vec::sort_by(|a, b| b.cmp(a)): a stable sort; x goes behind every element
   that does not compare greater than it *)
RECURSIVE SortByReverseCmp(_)
SortByReverseCmp(s) ==
    IF s = <<>> THEN <<>>
    ELSE LET sorted == SortByReverseCmp(Front(s))
             x == Last(s)
             k == Cardinality({i \in 1..Len(sorted) : ReverseCmp(sorted[i], x) <= 0})
         IN SubSeq(sorted, 1, k) \o <<x>> \o SubSeq(sorted, k + 1, Len(sorted))

Reverse(s) == [i \in 1..Len(s) |-> s[Len(s) + 1 - i]]

SortSubs_Unsorted(subs) == subs
SortSubs_Ascending(subs) == Reverse(SortByReverseCmp(subs))
(* subs.sort_by(|a, b| b.cmp(a)) *)
SortSubs(subs) == SortByReverseCmp(subs)

Item(abspath, relpath, typ, resolved, size) ==
    [abspath |-> abspath, relpath |-> relpath, typ |-> typ,
     resolved |-> resolved, size |-> size]

Event(path, typ, listed, yielded, pushed) ==
    [path |-> path, typ |-> typ, listed |-> listed, yielded |-> yielded,
     pushed |-> pushed]

Filter_KeepAll(listing) == listing
(* .filter(|d| is_allowed_name(d.strip_prefix(basedir), ignored_filenames)) *)
Filter(listing) ==
    LET Allowed(d) == is_allowed_name(StripPrefix(d, basedir), ignored_names)
    IN SelectSeq(listing, Allowed)

SkipEmpty_Always(subs) == opt.empty_dirs_ignored
(* subs.is_empty() && self.empty_dirs_ignored *)
SkipEmpty(subs) == subs = <<>> /\ opt.empty_dirs_ignored

(* DirWalkIterator::next on the stack rem, with read_dir listing in order
   ord; log is the history so far.  The result is the stack left, the item
   returned, the panic message (if any) and the history. *)
RECURSIVE WalkNext(_, _, _)
WalkNext(rem, ord, log) ==
    IF rem = <<>>
    THEN [remaining |-> rem, item |-> None, panic |-> "", events |-> log]
    ELSE
      LET r == Last(rem)
          rest == Front(rem)
          sym_meta == Metadata(r)
          abspath == r
          relpath == StripPrefix(r, basedir)
      IN
      IF sym_meta.is_symlink THEN
         IF opt.symlinks_should_abort
         THEN [remaining |-> rest, item |-> None, panic |-> "Found symlink",
               events |-> Append(log, Event(r, "Symlink", FALSE, FALSE, <<>>))]
         ELSE
           LET resolved_path == Canonicalize(r)
               resolved_meta == Metadata(resolved_path)
               typ == IF resolved_meta.is_dir THEN "SymlinkToDirectory"
                      ELSE "SymlinkToFile"
           IN [remaining |-> rest,
               item |-> Some(Item(abspath, relpath, typ, resolved_path,
                                  Some(resolved_meta.size))),
               panic |-> "",
               events |-> Append(log, Event(r, typ, FALSE, TRUE, <<>>))]
      ELSE IF sym_meta.is_file THEN
         [remaining |-> rest,
          item |-> Some(Item(abspath, relpath, "File", <<>>, Some(sym_meta.size))),
          panic |-> "",
          events |-> Append(log, Event(r, "File", FALSE, TRUE, <<>>))]
      ELSE
         LET subs == Filter(ReadDir(r, ord))
         IN IF SkipEmpty(subs)
            THEN WalkNext(rest, ord,
                          Append(log, Event(r, "Directory", TRUE, FALSE, <<>>)))
            ELSE [remaining |-> rest \o SortSubs(subs),
                  item |-> Some(Item(abspath, relpath, "Directory", <<>>, None)),
                  panic |-> "",
                  events |-> Append(log, Event(r, "Directory", TRUE, TRUE,
                                               SortSubs(subs)))]

----------------------------------------------------------------------------
(* Byte strings of the encoder *)

LongLinkName == <<46, 47, 46, 47, 64, 76, 111, 110, 103, 76, 105, 110, 107>>  \* "././@LongLink"
Mode755 == <<48, 48, 48, 48, 55, 53, 53, 0>>          \* "0000755\0"
Mode644 == <<48, 48, 48, 48, 54, 52, 52, 0>>          \* "0000644\0"
Id0 == <<48, 48, 48, 48, 48, 48, 48, 0>>              \* "0000000\0"
Size0 == <<48, 48, 48, 48, 48, 48, 48, 48, 48, 48, 48, 0>>   \* "00000000000\0"
EightSpaces == <<32, 32, 32, 32, 32, 32, 32, 32>>
UstarMagic == <<117, 115, 116, 97, 114, 32, 32, 0>>   \* "ustar  \0"
Root == <<114, 111, 111, 116>>                        \* "root"
TypeL == <<76>>                                       \* 'L'
TypeDir == <<53>>                                     \* '5'
TypeFile == <<48>>                                    \* '0'

(* header[off..off + bytes.len()].clone_from_slice(bytes), off counted from 0 *)
PutSlice(h, off, bytes) ==
    SubSeq(h, 1, off) \o bytes \o SubSeq(h, off + Len(bytes) + 1, Len(h))

RECURSIVE OctalDigits(_)
OctalDigits(n) ==
    IF n < 8 THEN <<48 + n>> ELSE Append(OctalDigits(n \div 8), 48 + (n % 8))

(* format!("{:0w$o}", n): at least w digits, zero padded on the left *)
FormatOctal(n, w) ==
    LET d == OctalDigits(n)
    IN IF Len(d) >= w THEN d ELSE [i \in 1..(w - Len(d)) |-> 48] \o d

RECURSIVE SumBytes(_, _, _)
SumBytes(h, lo, hi) ==
    IF lo > hi THEN 0
    ELSE IF lo = hi THEN h[lo]
    ELSE LET mid == (lo + hi) \div 2
         IN SumBytes(h, lo, mid) + SumBytes(h, mid + 1, hi)

FixChecksum_FieldAsZeros(header) ==
    LET sum == SumBytes(header, 1, Len(header)) - 8 * 32
    IN PutSlice(header, 148, FormatOctal(sum, 6) \o <<0, 32>>)
(* TarOutput::tar_fix_header_checksum *)
tar_fix_header_checksum(header) ==
    LET sum == SumBytes(header, 1, Len(header))
    IN PutSlice(header, 148, FormatOctal(sum, 6) \o <<0, 32>>)

(* The fields every header shares: uid, gid, checksum placeholder, magic,
   owner and group name *)
CommonFields(h) ==
    PutSlice(PutSlice(PutSlice(PutSlice(PutSlice(h, 108, Id0), 116, Id0),
             148, EightSpaces), 257, UstarMagic), 265, Root)

LongLinkHeader(mode, tarname) ==
    LET h0 == Zeros(BlockSize)
        h1 == PutSlice(h0, 0, LongLinkName)
        h2 == PutSlice(h1, 100, mode)
        h3 == CommonFields(h2)
        h4 == PutSlice(h3, 124, FormatOctal(Len(tarname), 11) \o <<0>>)
        h5 == PutSlice(h4, 156, TypeL)
        h6 == PutSlice(h5, 297, Root)
    IN tar_fix_header_checksum(h6)

(* tar_write_dir, line 211 *)
DirLongLinkMode == Mode755
FileLongLinkMode_755 == Mode755
(* tar_write_file, line 256 *)
FileLongLinkMode == Mode644

(* &tarname[..min(tarname.len(), 100)] *)
NameField(tarname) == SubSeq(tarname, 1, Min(Len(tarname), NameFieldLen))

RegularHeader(mode, tarname, sizefield, typeflag) ==
    LET h0 == Zeros(BlockSize)
        h1 == PutSlice(h0, 0, NameField(tarname))
        h2 == PutSlice(h1, 100, mode)
        h3 == CommonFields(h2)
        h4 == PutSlice(h3, 124, sizefield)
        h5 == PutSlice(h4, 156, typeflag)
        h6 == PutSlice(h5, 297, Root)
    IN tar_fix_header_checksum(h6)

NeedsLongLink_AtLeast(tarname) == Len(tarname) >= NameFieldLen
(* tarname.len() > 100 *)
NeedsLongLink(tarname) == Len(tarname) > NameFieldLen

(* The tar sink: the bytes written and where headers were written *)
Sink(bytes, hdrs) == [out |-> bytes, hdrs |-> hdrs]
WriteAll(w, bytes) == Sink(w.out \o bytes, w.hdrs)
WriteHeader(w, header) == Sink(w.out \o header, Append(w.hdrs, Len(w.out)))

(* tar_write_dir *)
tar_write_dir(w, tarname) ==
    LET w1 == IF NeedsLongLink(tarname)
              THEN LET padding == (BlockSize - (Len(tarname) % BlockSize)) % BlockSize
                   IN WriteAll(WriteAll(
                        WriteHeader(w, LongLinkHeader(DirLongLinkMode, tarname)),
                        tarname), Zeros(padding))
              ELSE w
    IN WriteHeader(w1, RegularHeader(Mode755, tarname, Size0, TypeDir))

(* Sha512 and hex::encode are not computed: a digest is the term
   Sha512(bytes fed), its hex form the term HexEncode(digest) *)
Sha512New == <<>>
Sha512Update(hasher, chunk) == hasher \o chunk
Sha512Finalize(hasher) == [sha512 |-> hasher]
HexEncode(digest) == [hex |-> digest]

(* The read loop of tar_write_file (lines 297-309): src is the content the
   reader delivers, st.pos the position in it *)
RECURSIVE CopyLoop(_, _, _)
CopyLoop(src, hash_on, st) ==
    LET n == Min(BlockSize, Len(src) - st.pos)
    IN IF n = 0 THEN st
       ELSE LET buffer == SubSeq(src, st.pos + 1, st.pos + n)
            IN CopyLoop(src, hash_on,
                 [pos |-> st.pos + n,
                  already_read |-> st.already_read + n,
                  w |-> WriteAll(st.w, buffer),
                  hasher |-> IF hash_on THEN Sha512Update(st.hasher, buffer)
                             ELSE st.hasher])

SizeDiffers_OnlyShort(already_read, size) == already_read < size
(* already_read != *size *)
SizeDiffers(already_read, size) == already_read # size

DigestLine_NameField(digest, tarname) ==
    <<HexEncode(digest), <<32, 32>>, NameField(tarname), <<10>>>>
(* the four write_all calls on out_hash, lines 318-321 *)
DigestLine(digest, tarname) ==
    <<HexEncode(digest), <<32, 32>>, tarname, <<10>>>>

(* tar_write_file: w the tar sink, hash the digest sink (Option), src the
   content of the opened file.  The result is both sinks and the panic
   message. *)
tar_write_file(w, hash, src, size, tarname) ==
    LET w1 == IF NeedsLongLink(tarname)
              THEN LET padding == IF Len(tarname) % BlockSize = 0 THEN 0
                                  ELSE BlockSize - (Len(tarname) % BlockSize)
                   IN WriteAll(WriteAll(
                        WriteHeader(w, LongLinkHeader(FileLongLinkMode, tarname)),
                        tarname), Zeros(padding))
              ELSE w
        w2 == WriteHeader(w1, RegularHeader(Mode644, tarname,
                                 FormatOctal(size, 11) \o <<0>>, TypeFile))
        st == CopyLoop(src, hash # None,
                 [pos |-> 0, already_read |-> 0, w |-> w2, hasher |-> Sha512New])
    IN IF SizeDiffers(st.already_read, size)
       THEN [w |-> st.w, hash |-> hash,
             panic |-> "size while reading different from stat"]
       ELSE LET padding == (BlockSize - (st.already_read % BlockSize)) % BlockSize
                w3 == WriteAll(st.w, Zeros(padding))
            IN [w |-> w3,
                hash |-> IF hash # None
                         THEN Some(hash[1] \o DigestLine(Sha512Finalize(st.hasher),
                                                         tarname))
                         ELSE hash,
                panic |-> ""]

(* tar_end_marker *)
tar_end_marker(w) == WriteAll(w, Zeros(EndMarkerBlocks * BlockSize))

----------------------------------------------------------------------------
(* main *)

(* validate_main_dir_name(..).unwrap_or(input.file_name()) *)
main_dir_name ==
    IF opt.main_dir_name = None THEN FileName(opt.input) ELSE opt.main_dir_name[1]

RECURSIVE PushAll(_, _)
PushAll(name, comps) ==
    IF comps = <<>> THEN name
    ELSE PushAll(name \o <<Slash>> \o Head(comps), Tail(comps))

(* tarname.push(""): the trailing slash of a directory member *)
DirSuffix == <<Slash>>

(* The archive-internal name of item d: the main dir name, then the
   components of relpath after the first *)
TarName(d) ==
    LET tarname == PushAll(main_dir_name, Tail(d.relpath))
    IN IF d.typ \in {"Directory", "SymlinkToDirectory"}
       THEN tarname \o DirSuffix
       ELSE tarname

Opt(hash, mdn, ign, prune, abort, dot) ==
    [input |-> Input, output_hash |-> hash, main_dir_name |-> mdn,
     ignored_names |-> ign, empty_dirs_ignored |-> prune,
     symlinks_should_abort |-> abort, dot_files_excluded |-> dot]

IgnoredChoices == {<<>>, <<LitRegex(<<98>>)>>}
MainDirNameChoices == {None, Some(RR)}

Hi == <<104, 105>>
Variants ==
    {[content |-> <<>>, size |-> 0],
     [content |-> <<>>, size |-> 2],
     [content |-> Hi, size |-> 3],
     [content |-> Hi, size |-> 1],
     [content |-> [i \in 1..BlockSize |-> 65 + (i % 7)], size |-> BlockSize],
     [content |-> BigContent, size |-> BigLen]}

Start(f, o) ==
    /\ fs = f
    /\ opt = o
    /\ stamp = 0
    /\ run = 1
    /\ pc = "walk"
    /\ panic = ""
    /\ remaining = <<o.input>>
    /\ cur = None
    /\ out_tar = <<>>
    /\ out_hash = IF o.output_hash THEN Some(<<>>) ELSE None
    /\ header_at = <<>>
    /\ events = <<>>
    /\ first = None

(* The files main can reach in file system f *)
ReachableFiles(f) ==
    {p \in DOMAIN f : /\ f[p].kind = "file"
                      /\ \/ IsPrefix(Input, p)
                         \/ \E q \in DOMAIN f : f[q].target = p}

Trees(maxnodes, maxlinks) ==
    {MkFs("dir", k[1], k[2], NoSpecial) :
       k \in {x \in [Names1 -> Kinds1] \X [Names1 \X Names2 -> Kinds2] :
                /\ WellFormed(x[1], x[2])
                /\ NodeCount(x[1], x[2]) <= maxnodes
                /\ SymlinkCount(x[1]) <= maxlinks}}

(* Trees of up to MaxNodes entries, symlinks among them, with and without
   pruning of empty directories and abort on symlinks *)
InitWalk ==
    \E f \in Trees(MaxNodes, MaxSymlinks), prune, abort \in BOOLEAN :
        Start(f, Opt(TRUE, None, <<>>, prune, abort, FALSE))

(* Trees of up to MaxNodes entries under exclusion patterns, with and
   without pruning of empty directories *)
InitExclude ==
    \E f \in Trees(MaxNodes, 0), prune, dot \in BOOLEAN, ign \in IgnoredChoices :
        /\ dot \/ ign # <<>>
        /\ Start(f, Opt(TRUE, None, ign, prune, FALSE, dot))

(* Trees of up to MaxTarNodes entries (or a single file as the input), one
   file of which has another content, or a size that differs from what stat
   reported; with and without digest sink and main dir name *)
InitTar ==
    \E rk \in {"dir", "file"},
       k1 \in [Names1 -> Kinds1], k2 \in [Names1 \X Names2 -> Kinds2] :
      /\ WellFormed(k1, k2)
      /\ NodeCount(k1, k2) <= MaxTarNodes
      /\ SymlinkCount(k1) <= MaxSymlinks
      /\ rk = "file" => k1 = NoEntries
      /\ \E p \in ReachableFiles(MkFs(rk, k1, k2, NoSpecial)), v \in Variants,
            hash \in BOOLEAN, mdn \in MainDirNameChoices :
            Start(MkFs(rk, k1, k2, [path |-> p, content |-> v.content,
                                    size |-> v.size]),
                  Opt(hash, mdn, <<>>, FALSE, FALSE, FALSE))

Init == InitWalk \/ InitExclude \/ InitTar

(* The pull of the for loop: DirWalkIterator::next *)
IterNext ==
    /\ pc = "walk"
    /\ \E ord \in Orders :
         LET res == WalkNext(remaining, ord, events)
         IN /\ remaining' = res.remaining
            /\ events' = res.events
            /\ cur' = res.item
            /\ panic' = res.panic
            /\ pc' = IF res.panic # "" THEN "panicked"
                     ELSE IF res.item = None THEN "end" ELSE "write"
    /\ UNCHANGED <<fs, stamp, opt, run, out_tar, out_hash, header_at, first>>

(* The loop body for Directory and SymlinkToDirectory *)
WriteDir ==
    /\ pc = "write"
    /\ cur[1].typ \in {"Directory", "SymlinkToDirectory"}
    /\ LET w == tar_write_dir(Sink(out_tar, header_at), TarName(cur[1]))
       IN /\ out_tar' = w.out
          /\ header_at' = w.hdrs
    /\ pc' = "walk"
    /\ cur' = None
    /\ UNCHANGED <<fs, stamp, opt, run, panic, remaining, out_hash, events, first>>

(* The loop body for File and SymlinkToFile *)
WriteFile ==
    /\ pc = "write"
    /\ cur[1].typ \in {"File", "SymlinkToFile"}
    /\ LET d == cur[1]
           opened == IF d.typ = "File" THEN d.abspath ELSE d.resolved
           res == tar_write_file(Sink(out_tar, header_at), out_hash,
                                 fs[opened].content, d.size[1], TarName(d))
       IN /\ out_tar' = res.w.out
          /\ header_at' = res.w.hdrs
          /\ out_hash' = res.hash
          /\ panic' = res.panic
          /\ pc' = IF res.panic # "" THEN "panicked" ELSE "walk"
    /\ cur' = None
    /\ UNCHANGED <<fs, stamp, opt, run, remaining, events, first>>

(* After the loop: tar_end_marker *)
EndMarker ==
    /\ pc = "end"
    /\ out_tar' = tar_end_marker(Sink(out_tar, header_at)).out
    /\ pc' = "done"
    /\ UNCHANGED <<fs, stamp, opt, run, panic, remaining, cur, out_hash,
                   header_at, events, first>>

(* The program is invoked a second time on the same tree with the same
   options; timestamps and ownership have changed meanwhile *)
Rerun ==
    /\ run = 1
    /\ pc \in {"done", "panicked"}
    /\ first' = Some([out_tar |-> out_tar, out_hash |-> out_hash, pc |-> pc,
                      panic |-> panic, events |-> events])
    /\ run' = 2
    /\ stamp' = stamp + 1
    /\ pc' = "walk"
    /\ panic' = ""
    /\ remaining' = <<opt.input>>
    /\ cur' = None
    /\ out_tar' = <<>>
    /\ out_hash' = IF opt.output_hash THEN Some(<<>>) ELSE None
    /\ header_at' = <<>>
    /\ events' = <<>>
    /\ UNCHANGED <<fs, opt>>

Next == IterNext \/ WriteDir \/ WriteFile \/ EndMarker \/ Rerun

Spec == Init /\ [][Next]_vars

----------------------------------------------------------------------------
(* Reading the outputs back *)

IsYielded(e) == e.yielded
Yielded == SelectSeq(events, IsYielded)
(* The members main has handed to the encoder: all yielded entries but the
   one the loop body has not processed yet *)
Written == SubSeq(Yielded, 1, Len(Yielded) - (IF pc = "write" THEN 1 ELSE 0))
IsDirMember(e) == e.typ \in {"Directory", "SymlinkToDirectory"}
IsFileMember(e) == e.typ \in {"File", "SymlinkToFile"}
WrittenFiles == SelectSeq(Written, IsFileMember)

(* The archive-internal name of a yielded entry, from its path *)
MemberName(e) ==
    LET top == IF opt.main_dir_name = None THEN R ELSE opt.main_dir_name[1]
    IN JoinPath(<<top>> \o Tail(StripPrefix(e.path, <<T>>)))
         \o (IF IsDirMember(e) THEN <<47>> ELSE <<>>)

(* The content the reader delivers for a file member *)
SourceOf(e) == fs[IF fs[e.path].kind = "symlink" THEN fs[e.path].target ELSE e.path]

Block(off) == SubSeq(out_tar, off + 1, off + 512)
Field(h, off, len) == SubSeq(h, off + 1, off + len)
TypeFlag(h) == h[157]
IsOctalDigits(s) == \A i \in 1..Len(s) : s[i] \in 48..55
RECURSIVE ParseOctal(_)
ParseOctal(s) == IF s = <<>> THEN 0 ELSE 8 * ParseOctal(Front(s)) + (Last(s) - 48)
SizeField(h) == ParseOctal(Field(h, 124, 11))
RoundUp(n) == ((n + 511) \div 512) * 512
AllZero(s) == \A i \in 1..Len(s) : s[i] = 0
HeaderBlocks == [k \in 1..Len(header_at) |-> Block(header_at[k])]

----------------------------------------------------------------------------
(* Claims about the walker *)

Excluded(name) == \E k \in 1..Len(ignored_names) : IsMatch(ignored_names[k], name)
(* A path with a component below the input that an exclusion pattern matches *)
HasExcludedComponent(p) == \E i \in (Len(Input) + 1)..Len(p) : Excluded(p[i])
ChildrenOf(p) == {q \in DOMAIN fs : Len(q) = Len(p) + 1 /\ IsPrefix(p, q)}
AllowedChildrenOf(p) == {q \in ChildrenOf(p) : ~Excluded(Last(q))}
Finished2 == run = 2 /\ pc \in {"done", "panicked"}

(* C1: two invocations on the same tree with the same options, which differ
   in the order read_dir lists children and in timestamps and ownership,
   write the same archive bytes and the same digest listing: when either
   run completes, so does the other, with equal outputs. *)
C1_Determinism ==
    (Finished2 /\ (pc = "done" \/ first[1].pc = "done"))
       => /\ first[1].pc = pc
          /\ first[1].out_tar = out_tar
          /\ first[1].out_hash = out_hash

C1_Witness ==
    /\ run = 2 /\ pc = "done" /\ stamp # 0
    /\ first[1].out_tar = out_tar
    /\ \E e \in {events[i] : i \in 1..Len(events)} : Len(e.pushed) >= 2
    /\ Len(out_hash[1]) >= 8

(* C2: in the sequence of yielded entries a directory comes before all its
   descendants, siblings appear in strictly ascending order of basename,
   and the whole subtree of a child comes before any later sibling. *)
C2_TraversalOrder ==
    LET Y == Yielded
        I == 1..Len(Y)
    IN /\ \A i, j \in I :
            (i # j /\ IsPrefix(Y[i].path, Y[j].path)) => i < j
       /\ \A i, j \in I :
            (i < j /\ Parent(Y[i].path) = Parent(Y[j].path))
               => BytesCmp(Last(Y[i].path), Last(Y[j].path)) < 0
       /\ \A i, j, k \in I :
            (/\ i < k /\ Parent(Y[i].path) = Parent(Y[k].path)
             /\ IsPrefix(Y[i].path, Y[j].path))
               => j < k

C2_Witness ==
    /\ pc = "done"
    /\ \E i, j, k \in 1..Len(Yielded) :
         /\ i < j /\ j < k
         /\ Parent(Yielded[i].path) = Parent(Yielded[k].path)
         /\ Parent(Yielded[j].path) = Yielded[i].path

(* C3: a symlink that resolves to a directory is traversed: after a complete
   run every non-excluded child of the target directory has been yielded
   beneath the symlink's own path. *)
C3_SymlinkedDirTraversed ==
    pc = "done" =>
      \A i \in 1..Len(events) :
        events[i].typ = "SymlinkToDirectory" =>
          \A q \in AllowedChildrenOf(fs[events[i].path].target) :
            \E j \in 1..Len(events) :
               /\ events[j].yielded
               /\ events[j].path = events[i].path \o <<Last(q)>>

(* C6: no yielded entry, no pending path and no listed directory has a
   component below the input that an exclusion pattern matches. *)
C6_ExclusionPruning ==
    /\ \A i \in 1..Len(events) : ~HasExcludedComponent(events[i].path)
    /\ \A i \in 1..Len(remaining) : ~HasExcludedComponent(remaining[i])
    /\ cur # None => ~HasExcludedComponent(cur[1].abspath)

C6_Witness ==
    /\ pc = "done"
    /\ Len(Yielded) >= 2
    /\ \E p \in DOMAIN fs, q \in DOMAIN fs :
         /\ IsPrefix(Input, p) /\ Excluded(Last(p)) /\ fs[p].kind = "dir"
         /\ Parent(q) = p

(* C7: a real directory that next() pops is yielded unless pruning is on
   and it has no non-excluded immediate child; a pruned directory pushes
   nothing and next() goes on with the pending paths; a yielded directory
   pushes exactly its non-excluded children. *)
C7_EmptyDirPolicy ==
    /\ \A i \in 1..Len(events) :
         events[i].typ = "Directory" =>
           /\ events[i].yielded <=>
                ~(opt.empty_dirs_ignored /\ AllowedChildrenOf(events[i].path) = {})
           /\ {events[i].pushed[k] : k \in 1..Len(events[i].pushed)}
                = IF events[i].yielded THEN AllowedChildrenOf(events[i].path) ELSE {}
    /\ (events # <<>> /\ Last(events).typ = "Directory" /\ ~Last(events).yielded)
          => (remaining = <<>> /\ pc \in {"end", "done"})

C7_Witness ==
    /\ pc = "done" /\ opt.empty_dirs_ignored
    /\ \E i, j \in 1..Len(events) :
         /\ events[i].typ = "Directory" /\ events[i].yielded
         /\ events[j].typ = "Directory" /\ ~events[j].yielded
         /\ ChildrenOf(events[i].path) = {events[j].path}
         /\ ChildrenOf(events[j].path) # {}

----------------------------------------------------------------------------
(* Claims about the encoder *)

(* The headers from index k on are those of the members with the given
   names, the first of them starting at offset off: a long name has an 'L'
   header with the name length as size, the name padded with zeros to a
   block boundary and then the regular header with the first 100 bytes of
   the name; a short name has the regular header alone, with the whole
   name, zero filled.  After a regular header the next member starts behind
   the content the header announces. *)
RECURSIVE MembersAt(_, _, _)
MembersAt(names, k, off) ==
    IF names = <<>> THEN k = Len(header_at) + 1
    ELSE
      LET n == Head(names)
          long == Len(n) > 100
          kr == IF long THEN k + 1 ELSE k
      IN /\ kr <= Len(header_at)
         /\ header_at[k] = off
         /\ long =>
              /\ TypeFlag(Block(off)) = 76
              /\ IsOctalDigits(Field(Block(off), 124, 11))
              /\ Field(Block(off), 124, 12)[12] = 0
              /\ SizeField(Block(off)) = Len(n)
              /\ SubSeq(out_tar, off + 513, off + 512 + Len(n)) = n
              /\ AllZero(SubSeq(out_tar, off + 513 + Len(n), off + 512 + RoundUp(Len(n))))
              /\ header_at[kr] = off + 512 + RoundUp(Len(n))
         /\ LET h == Block(header_at[kr])
            IN /\ Len(h) = 512
               /\ TypeFlag(h) # 76
               /\ Field(h, 0, 100) = SubSeq(n, 1, Min(Len(n), 100))
                                       \o Zeros(100 - Min(Len(n), 100))
               /\ MembersAt(Tail(names), kr + 1,
                            header_at[kr] + 512 + RoundUp(SizeField(h)))

WrittenNames == [i \in 1..Len(Written) |-> MemberName(Written[i])]

(* C4: every member with a name longer than 100 bytes is written as an 'L'
   header, the padded name and the regular header with the first 100 bytes;
   a member with a shorter name as the regular header alone. *)
C4_LongNames == MembersAt(WrittenNames, 1, 0)

C4_Witness ==
    /\ pc = "done"
    /\ \E i, j, k \in 1..Len(Written) :
         /\ Len(WrittenNames[i]) = 101 /\ IsDirMember(Written[i])
         /\ Len(WrittenNames[j]) > 101 /\ IsFileMember(Written[j])
         /\ Len(WrittenNames[k]) < 100

ChecksumValid(h) ==
    LET f == Field(h, 148, 8)
    IN /\ Len(h) = 512
       /\ IsOctalDigits(SubSeq(f, 1, 6))
       /\ f[7] = 0
       /\ f[8] = 32
       /\ ParseOctal(SubSeq(f, 1, 6))
            = SumBytes(h, 1, 148) + 8 * 32 + SumBytes(h, 157, 512)

(* C5: every header written has six octal digits, NUL and space in bytes
   148..155, and the digits are the sum of the 512 header bytes with those
   eight bytes counted as spaces. *)
C5_Checksum ==
    \A k \in 1..Len(header_at) : ChecksumValid(Block(header_at[k]))

C5_Witness ==
    /\ pc = "done"
    /\ \E a, b, c \in 1..Len(header_at) :
         /\ TypeFlag(HeaderBlocks[a]) = 76
         /\ TypeFlag(HeaderBlocks[b]) = 53
         /\ TypeFlag(HeaderBlocks[c]) = 48 /\ SizeField(HeaderBlocks[c]) > 512

SizeMismatch(e) == Len(SourceOf(e).content) # SourceOf(e).size

(* C8: a file member whose content has another length than stat reported
   ends the run with a panic: nothing is written behind its content (no
   padding, no member, no end marker) and it gets no digest line. *)
C8_SizeMismatch ==
    \A i \in 1..Len(Written) :
      (IsFileMember(Written[i]) /\ SizeMismatch(Written[i])) =>
        /\ pc = "panicked"
        /\ panic = "size while reading different from stat"
        /\ i = Len(Written)
        /\ Len(out_tar) = Last(header_at) + 512 + Len(SourceOf(Written[i]).content)
        /\ out_hash # None => Len(out_hash[1]) = 4 * (Len(WrittenFiles) - 1)

C8_Witness ==
    /\ pc = "panicked"
    /\ Written # <<>>
    /\ IsFileMember(Last(Written))
    /\ Len(SourceOf(Last(Written)).content) < SourceOf(Last(Written)).size
    /\ Len(header_at) >= 2

FileHeaderOffsets ==
    LET IsFileHeader(off) == TypeFlag(Block(off)) = 48
    IN SelectSeq(header_at, IsFileHeader)

(* C9: after a complete run with a digest sink the listing has one line per
   file member and nothing else, in archive order; line i has the digest of
   the content bytes that follow the i-th file header in the archive, two
   spaces, the full name of the i-th file member and a newline. *)
C9_DigestListing ==
    (pc = "done" /\ out_hash # None) =>
      LET lines == out_hash[1]
          offs == FileHeaderOffsets
      IN /\ Len(lines) = 4 * Len(offs)
         /\ Len(offs) = Len(WrittenFiles)
         /\ \A i \in 1..Len(offs) :
              LET size == SizeField(Block(offs[i]))
                  content == SubSeq(out_tar, offs[i] + 513, offs[i] + 512 + size)
              IN /\ lines[4 * i - 3] = [hex |-> [sha512 |-> content]]
                 /\ lines[4 * i - 2] = <<32, 32>>
                 /\ lines[4 * i - 1] = MemberName(WrittenFiles[i])
                 /\ lines[4 * i] = <<10>>
                 /\ content = SourceOf(WrittenFiles[i]).content

C9_Witness ==
    /\ pc = "done" /\ out_hash # None
    /\ Len(out_hash[1]) = 8
    /\ \E e \in {Written[i] : i \in 1..Len(Written)} : IsDirMember(e)
    /\ Len(out_hash[1][3]) > 100

LongLinkModes(file_mode_of_long_link) ==
    \A k \in 1..Len(header_at) :
      LET h == HeaderBlocks[k]
          mode == Field(h, 100, 8)
      IN CASE TypeFlag(h) = 53 -> mode = Mode755
           [] TypeFlag(h) = 48 -> mode = Mode644
           [] TypeFlag(h) = 76 ->
                IF TypeFlag(HeaderBlocks[k + 1]) = 48
                THEN mode = file_mode_of_long_link
                ELSE mode = Mode755

(* C10 as claimed: every 'L' header has mode 0000755, before a directory
   member and before a file member alike; only '0' headers have 0000644. *)
C10_Claimed == LongLinkModes(Mode755)

(* C10: an 'L' header has the mode of the regular header behind it:
   0000755 before a directory member, 0000644 before a file member. *)
C10_LongLinkMode == LongLinkModes(Mode644)

C10_Witness ==
    /\ pc = "done"
    /\ \E a, b \in 1..(Len(header_at) - 1) :
         /\ TypeFlag(HeaderBlocks[a]) = 76 /\ TypeFlag(HeaderBlocks[a + 1]) = 53
         /\ TypeFlag(HeaderBlocks[b]) = 76 /\ TypeFlag(HeaderBlocks[b + 1]) = 48

====
